---- MODULE Spec2Model ----
(***************************************************************************)
(* Model of the authentication / API-client authorization subsystem of     *)
(* ModelRunner: the bearer-token gate (auth_middleware), the four client   *)
(* management handlers of src/main.rs and the store operations of          *)
(* src/api/client.rs.  Every database round trip (each `.await` on a       *)
(* query against the pool) is one atomic step, so requests interleave at   *)
(* the points where the async runtime can switch tasks.                    *)
(*                                                                         *)
(* Strings are sequences of one-character strings, Option<T> is a sequence *)
(* of length 0 (None) or 1 (Some), tables are sets of rows.                *)
(***************************************************************************)
EXTENDS Integers, Sequences, FiniteSets, TLC

\* ------------------------------------------------------------------ bounds
\* Number of tokens (id, secret) the CSPRNG hands out in a run.
MaxIssued == 2
\* Number of readings of the wall clock in a run (one per create / update).
MaxTime == 3

\* ----------------------------------------------------------- input domains
\* Ids the 16-byte id generator can produce.
Ids == {<<"a">>, <<"b">>}
Names == {<<"n">>, <<"m">>}
\* Names given to a client when it is made.
NewNames == {<<"n">>}
Reqs == {"r1", "r2"}

None == <<>>
Some(x) == <<x>>

\* ------------------------------------------------------------- permissions
Perms == {"USE_SELF", "USE_OTHER", "STATUS_SELF", "STATUS_OTHER",
          "CREATE_SELF", "CREATE_OTHER", "DELETE_SELF", "DELETE_OTHER",
          "UPDATE_SELF", "UPDATE_OTHER"}

\* The order in which the elements of a permission set are written.
PermOrder == <<"USE_SELF", "USE_OTHER", "STATUS_SELF", "STATUS_OTHER",
               "CREATE_SELF", "CREATE_OTHER", "DELETE_SELF", "DELETE_OTHER",
               "UPDATE_SELF", "UPDATE_OTHER">>

PNone == {}
PSelf == {"USE_SELF", "STATUS_SELF", "DELETE_SELF", "UPDATE_SELF"}
PMgr == {"USE_SELF", "STATUS_OTHER", "CREATE_SELF"}
PAdmin == {"USE_SELF", "DELETE_SELF", "DELETE_OTHER", "UPDATE_OTHER"}
\* Permission sets submitted by create / update requests and by the CLI.
PermChoices == {PNone, PSelf, PMgr, PAdmin}

\* First element of a non-empty permission set in write order.
NextPerm(ps) ==
    PermOrder[CHOOSE i \in 1..Len(PermOrder) :
                /\ PermOrder[i] \in ps
                /\ \A j \in 1..(i - 1) : PermOrder[j] \notin ps]

\* ------------------------------------------------------- responses on wire
OK == 200
BAD_REQUEST == 400
UNAUTHORIZED == 401
NOT_FOUND == 404
INTERNAL_SERVER_ERROR == 500
\* Exit code of the command line tool.
CliExit == 0

MsgNone == <<>>
MsgMissingHeader == <<"Missing authorization header">>
MsgInvalidHeader == <<"Invalid authorization header">>
MsgInvalidFormat == <<"Invalid format for key">>
MsgAuthFailed == <<"Failed to authenticate client">>
MsgNoPermission == "Client does not have permission to perform this action: "
MsgStatusNotFound == <<"Failed to find any client matching ID">>
MsgUpdateNotFound == <<"Failed to find client by ID">>
MsgRowNotFound == <<"no rows returned by a query that expected to return at least one row">>
MsgUniqueViolation == <<"UNIQUE constraint failed: api_clients.id">>
MsgUnreachable == <<"internal error: entered unreachable code">>

Resp(s, m, b) == [status |-> s, message |-> m, body |-> b]
NoResp == Resp(0, MsgNone, None)

\* runner!(status, message)
runner(s, m) == Resp(s, m, None)

\* impl From<E: Into<anyhow::Error>> for ModelRunnerError: every error that
\* reaches a handler's `?` becomes a 500 carrying the error's own text.
FromError(m) == Resp(INTERNAL_SERVER_ERROR, m, None)

\* ------------------------------------------------------------ token codec
Sep == "_"
BearerPrefix == "Bearer "

\* The n-th secret drawn from the CSPRNG (distinct for distinct n, and, being
\* base64, free of the separator).
Secret(n) == [i \in 1..n |-> "x"]
WrongSecret == <<"w">>

\* format!("{id}_{key}")
FormatToken(id, key) == id \o <<Sep>> \o key

\* Position of the first separator at or after position i, or Len(s) + 1.
RECURSIVE FindSep(_, _)
FindSep(s, i) ==
    IF i > Len(s) THEN Len(s) + 1
    ELSE IF s[i] = Sep THEN i
    ELSE FindSep(s, i + 1)

\* str::split('_'): the sequence of parts; never empty.
RECURSIVE Split(_)
Split(s) ==
    LET k == FindSep(s, 1)
    IN  IF k > Len(s) THEN <<s>>
        ELSE <<SubSeq(s, 1, k - 1)>> \o Split(SubSeq(s, k + 1, Len(s)))

\* Mutant: a token without separator is taken as an id with an empty key.
extract_id_key_Lenient(key) ==
    LET parts == Split(key)
    IN  [ok |-> TRUE, id |-> parts[1],
         key |-> IF Len(parts) < 2 THEN <<>> ELSE parts[2]]

\* extract_id_key: the first two parts of the split; an error when there is
\* no second part.
extract_id_key(key) ==
    LET parts == Split(key)
    IN  IF Len(parts) < 2
        THEN [ok |-> FALSE, id |-> <<>>, key |-> <<>>]
        ELSE [ok |-> TRUE, id |-> parts[1], key |-> parts[2]]

\* Mutant: an absent header is reported like a malformed one.
extract_auth_header_OneError(header) ==
    IF header = None \/ Len(header[1]) = 0 \/ Head(header[1]) # BearerPrefix
    THEN [ok |-> FALSE, err |-> MsgInvalidHeader, token |-> <<>>]
    ELSE [ok |-> TRUE, err |-> MsgNone, token |-> Tail(header[1])]

\* extract_auth_header: the header value without its "Bearer " prefix.
extract_auth_header(header) ==
    IF header = None THEN [ok |-> FALSE, err |-> MsgMissingHeader, token |-> <<>>]
    ELSE IF Len(header[1]) = 0 \/ Head(header[1]) # BearerPrefix
    THEN [ok |-> FALSE, err |-> MsgInvalidHeader, token |-> <<>>]
    ELSE [ok |-> TRUE, err |-> MsgNone, token |-> Tail(header[1])]

\* ------------------------------------------------------ credential hasher
\* Argon2 hash string: algorithm, salt and digest; the digest is an
\* injective function of key and salt.
hash_password(key, salt) ==
    [alg |-> "argon2id", salt |-> salt, digest |-> <<"H", key, salt>>]

verify_password(key, hash) == hash_password(key, hash.salt) = hash

\* ----------------------------------------------------------------- state
VARIABLES
    api_clients,    \* table api_clients: set of rows, at most one per id
    scopes,         \* table api_client_permission_scopes: set of <<id, perm>>
    now,            \* readings taken of the wall clock so far
    issued,         \* tokens drawn from the CSPRNG so far
    rq,             \* the request (or CLI run) each worker is executing
    deleted,        \* history: <<id, key hash>> of the rows a completed delete removed
    committed       \* history: per id, the permission set of the last completed
                    \* new / update (None after a completed delete)

vars == <<api_clients, scopes, now, issued, rq, deleted, committed>>
hist == <<deleted, committed>>

Row(id, name, key, created_at, updated_at, created_by) ==
    [id |-> id, name |-> name, key |-> key, created_at |-> created_at,
     updated_at |-> updated_at, created_by |-> created_by]

\* SELECT ... FROM api_clients WHERE id = ?
SelectClient(id) == {row \in api_clients : row.id = id}

\* SELECT scope_id FROM api_client_permission_scopes WHERE api_client_id = ?
SelectScopes(id) == {s[2] : s \in {t \in scopes : t[1] = id}}

\* struct ApiClient as loaded from the store; token.id and token.key_hash
\* are the row's id and key, token.key_raw is absent.
ApiClient(row, permissions) ==
    [id |-> row.id, name |-> row.name, key_hash |-> row.key, key_raw |-> None,
     permissions |-> permissions, created_at |-> row.created_at,
     updated_at |-> row.updated_at, created_by |-> row.created_by]

NoRow == Row(<<>>, None, hash_password(<<>>, 0), 0, 0, None)
NoClient == ApiClient(NoRow, {})

\* A stored scope_id outside the values Permission is written as.
CorruptScope == "99"

\* impl From<i64> for Permission, over the loaded rows: every value must be
\* one of the known ones, any other reaches unreachable!().
PermissionFrom(scope_ids) == scope_ids \subseteq Perms

\* unreachable!() panics: the request's task unwinds and its connection is
\* closed, nothing is written to the wire (status 0); the message goes to
\* the process's stderr.
Unreachable == Resp(0, MsgUnreachable, None)

\* ApiClient::has_permission
has_permission(client, permission) == permission \in client.permissions

PermissionError(permission) == FromError(<<MsgNoPermission, permission>>)


\* ------------------------------------------------------------- requests
Kinds == {"status", "create", "delete", "update"}

\* A worker that is not executing anything.
IdleRq ==
    [pc |-> "idle", kind |-> "none", header |-> None,
     token |-> [id |-> <<>>, key |-> <<>>],
     target |-> None, name |-> <<>>, permissions |-> {},
     caller |-> NoClient,       \* the client the gate attached to the request
     client |-> NoClient,       \* the handler's `client` variable
     found |-> NoRow,           \* row returned by the last SELECT on api_clients
     pending |-> {},            \* queries of a try_join! not yet executed
     todo |-> {},               \* permissions the insert loop has not written
     unix_now |-> 0,
     resp |-> NoResp]

Free(r) == rq[r].pc \in {"idle", "done"}

SetRq(r, rec) == rq' = [rq EXCEPT ![r] = rec]

\* The request ends with response resp: the handler returns and its locals
\* are dropped; what the request presented and who it ran as stay on record.
Finish(rec, resp) == [rec EXCEPT !.pc = "done", !.resp = resp,
                                 !.pending = {}, !.todo = {},
                                 !.name = <<>>, !.permissions = {},
                                 !.unix_now = 0, !.client = NoClient]

\* Headers a caller may send.
Tokens ==
    {FormatToken(id, Secret(n)) : id \in Ids, n \in 1..MaxIssued}
    \cup {FormatToken(id, WrongSecret) : id \in Ids}
    \cup {<<"b", "o", "g", "u", "s">>,
          <<"a", Sep, "x", Sep, "x">>,
          <<Sep, "x">>,
          <<"a", Sep>>}

Headers ==
    {None, Some(<<"Basic ">> \o FormatToken(<<"a">>, Secret(1)))}
    \cup {Some(<<BearerPrefix>> \o t) : t \in Tokens}

OptIds == {None} \cup {Some(i) : i \in Ids}

\* --creator-id of the command line tool: absent, or any id, stored or not.
CliCreators == {None, Some(<<"b">>)}

\* The handler's extractors read the route and the JSON body once the gate
\* has let the request through.
Body(rec, kind, target, name, permissions) ==
    [rec EXCEPT !.kind = kind, !.target = target, !.name = name,
                !.permissions = permissions]

\* Mutant: the gate does not look the client up before loading permissions.
Request_SkipsResolve(r, header) ==
    /\ Free(r)
    /\ LET h == extract_auth_header(header)
           t == extract_id_key(h.token)
           rec == [IdleRq EXCEPT !.header = header]
       IN  IF ~h.ok THEN SetRq(r, Finish(rec, runner(BAD_REQUEST, h.err)))
           ELSE IF ~t.ok THEN SetRq(r, Finish(rec, FromError(MsgInvalidFormat)))
           ELSE SetRq(r, [rec EXCEPT !.pc = "with_token_scopes",
                                     !.token = [id |-> t.id, key |-> t.key]])
    /\ UNCHANGED <<api_clients, scopes, now, issued, hist>>

\* auth_middleware up to its first await: the header is extracted
\* (TypedHeader<Authorization<Bearer>>) and the token split into id and key.
Request(r, header) ==
    /\ Free(r)
    /\ LET h == extract_auth_header(header)
           t == extract_id_key(h.token)
           rec == [IdleRq EXCEPT !.header = header]
       IN  IF ~h.ok THEN SetRq(r, Finish(rec, runner(BAD_REQUEST, h.err)))
           ELSE IF ~t.ok THEN SetRq(r, Finish(rec, FromError(MsgInvalidFormat)))
           ELSE SetRq(r, [rec EXCEPT !.pc = "with_token",
                                     !.token = [id |-> t.id, key |-> t.key]])
    /\ UNCHANGED <<api_clients, scopes, now, issued, hist>>

\* Mutant: an unknown id is reported as not found, a wrong key as 401.
WithTokenClient_NotFound(r) ==
    /\ rq[r].pc = "with_token"
    /\ LET rows == SelectClient(rq[r].token.id)
       IN  IF rows = {}
           THEN SetRq(r, Finish(rq[r], runner(NOT_FOUND, MsgStatusNotFound)))
           ELSE LET row == CHOOSE x \in rows : TRUE
                IN  IF ~verify_password(rq[r].token.key, row.key)
                    THEN SetRq(r, Finish(rq[r], runner(UNAUTHORIZED, MsgAuthFailed)))
                    ELSE SetRq(r, [rq[r] EXCEPT !.pc = "with_token_scopes",
                                                !.found = row])
    /\ UNCHANGED <<api_clients, scopes, now, issued, hist>>

\* ApiClient::with_token, first query: the client row is fetched by the
\* token's id and the presented key verified against the stored hash.  Any
\* error is mapped to 401 by the middleware.
WithTokenClient(r) ==
    /\ rq[r].pc = "with_token"
    /\ LET rows == SelectClient(rq[r].token.id)
       IN  IF rows = {}
           THEN SetRq(r, Finish(rq[r], runner(UNAUTHORIZED, MsgAuthFailed)))
           ELSE LET row == CHOOSE x \in rows : TRUE
                IN  IF ~verify_password(rq[r].token.key, row.key)
                    THEN SetRq(r, Finish(rq[r], runner(UNAUTHORIZED, MsgAuthFailed)))
                    ELSE SetRq(r, [rq[r] EXCEPT !.pc = "with_token_scopes",
                                                !.found = row])
    /\ UNCHANGED <<api_clients, scopes, now, issued, hist>>

\* Mutant: the gate attaches the client without requiring USE_SELF.
WithTokenScopes_NoBaseline(r) ==
    /\ rq[r].pc = "with_token_scopes"
    /\ SetRq(r, [rq[r] EXCEPT
            !.pc = "handler",
            !.caller = ApiClient(rq[r].found, SelectScopes(rq[r].token.id)),
            !.client = ApiClient(rq[r].found, SelectScopes(rq[r].token.id))])
    /\ UNCHANGED <<api_clients, scopes, now, issued, hist>>

\* ApiClient::with_token, second query, and the rest of auth_middleware: the
\* permissions are fetched, USE_SELF is required and the client is inserted
\* into the request's extensions.
WithTokenScopes(r) ==
    /\ rq[r].pc = "with_token_scopes"
    /\ LET client == ApiClient(rq[r].found, SelectScopes(rq[r].token.id))
       IN  IF ~PermissionFrom(SelectScopes(rq[r].token.id))
           THEN SetRq(r, Finish(rq[r], Unreachable))
           ELSE IF ~has_permission(client, "USE_SELF")
           THEN SetRq(r, Finish(rq[r], PermissionError("USE_SELF")))
           ELSE SetRq(r, [rq[r] EXCEPT !.pc = "handler", !.caller = client,
                                       !.client = client])
    /\ UNCHANGED <<api_clients, scopes, now, issued, hist>>

\* ---------------------------------------------------------- ApiClient::with_id
\* The response of each handler when with_id fails to find the row.
WithIdError(kind) ==
    CASE kind = "status" -> runner(NOT_FOUND, MsgStatusNotFound)
      [] kind = "update" -> runner(NOT_FOUND, MsgUpdateNotFound)
      [] OTHER -> FromError(MsgRowNotFound)

\* The handler starts client = ApiClient::with_id(id): a try_join! of the two
\* SELECTs, which the pool executes in either order.
BeginWithId(rec) ==
    [rec EXCEPT !.pc = "with_id", !.pending = {"client", "scopes"},
                !.found = NoRow, !.todo = {}]

\* After the last of the two queries the handler's `client` is the loaded one.
EndWithId(rec) ==
    IF rec.pending = {} /\ ~PermissionFrom(rec.todo)
    THEN Finish(rec, Unreachable)
    ELSE IF rec.pending = {}
    THEN [rec EXCEPT !.pc = "loaded", !.client = ApiClient(rec.found, rec.todo),
                     !.todo = {}]
    ELSE rec

\* SELECT of the client row (fetch_one): no row is an error, which ends the
\* try_join! and the handler.
WithIdClient(r) ==
    /\ rq[r].pc = "with_id"
    /\ "client" \in rq[r].pending
    /\ LET rows == SelectClient(rq[r].target[1])
       IN  IF rows = {}
           THEN SetRq(r, Finish(rq[r], WithIdError(rq[r].kind)))
           ELSE SetRq(r, EndWithId([rq[r] EXCEPT
                            !.found = CHOOSE x \in rows : TRUE,
                            !.pending = @ \ {"client"}]))
    /\ UNCHANGED <<api_clients, scopes, now, issued, hist>>

\* SELECT of the permission rows (fetch_all).
WithIdScopes(r) ==
    /\ rq[r].pc = "with_id"
    /\ "scopes" \in rq[r].pending
    /\ SetRq(r, EndWithId([rq[r] EXCEPT
                    !.todo = SelectScopes(rq[r].target[1]),
                    !.pending = @ \ {"scopes"}]))
    /\ UNCHANGED <<api_clients, scopes, now, issued, hist>>

\* ------------------------------------------------------- handle_status_request
\* Mutant: a target is looked up without requiring STATUS_OTHER.
HandleStatus_NoOther(r, id) ==
    /\ rq[r].pc = "handler"
    /\ LET req == Body(rq[r], "status", id, <<>>, {})
       IN  IF req.target # None
           THEN SetRq(r, BeginWithId(req))
           ELSE IF ~has_permission(req.client, "STATUS_SELF")
                THEN SetRq(r, Finish(req, PermissionError("STATUS_SELF")))
                ELSE SetRq(r, Finish(req, Resp(OK, MsgNone, Some(req.client))))
    /\ UNCHANGED <<api_clients, scopes, now, issued, hist>>

HandleStatus(r, id) ==
    /\ rq[r].pc = "handler"
    /\ LET req == Body(rq[r], "status", id, <<>>, {})
       IN  IF req.target # None
           THEN IF ~has_permission(req.client, "STATUS_OTHER")
                THEN SetRq(r, Finish(req, PermissionError("STATUS_OTHER")))
                ELSE SetRq(r, BeginWithId(req))
           ELSE IF ~has_permission(req.client, "STATUS_SELF")
                THEN SetRq(r, Finish(req, PermissionError("STATUS_SELF")))
                ELSE SetRq(r, Finish(req, Resp(OK, MsgNone, Some(req.client))))
    /\ UNCHANGED <<api_clients, scopes, now, issued, hist>>

\* handle_status_request after with_id returned the target.
HandleStatusLoaded(r) ==
    /\ rq[r].pc = "loaded"
    /\ rq[r].kind = "status"
    /\ SetRq(r, Finish(rq[r], Resp(OK, MsgNone, Some(rq[r].client))))
    /\ UNCHANGED <<api_clients, scopes, now, issued, hist>>

\* -------------------------------------------------------------- ApiClient::new
\* Mutant: the creator is not recorded.
BeginNew_NoCreator(rec, id, creator_id) ==
    [rec EXCEPT !.pc = "new_client",
                !.unix_now = now + 1,
                !.client = [id |-> id, name |-> Some(rec.name),
                            key_hash |-> hash_password(Secret(issued + 1), issued + 1),
                            key_raw |-> Some(Secret(issued + 1)),
                            permissions |-> rec.permissions,
                            created_at |-> now + 1, updated_at |-> now + 1,
                            created_by |-> None]]

\* ApiClient::new up to its first await: a fresh salt and token (id, raw key
\* and its hash) are generated and the clock is read.  The generator may
\* return any id; keys and salts are fresh.
BeginNew(rec, id, creator_id) ==
    [rec EXCEPT !.pc = "new_client",
                !.unix_now = now + 1,
                !.client = [id |-> id, name |-> Some(rec.name),
                            key_hash |-> hash_password(Secret(issued + 1), issued + 1),
                            key_raw |-> Some(Secret(issued + 1)),
                            permissions |-> rec.permissions,
                            created_at |-> now + 1, updated_at |-> now + 1,
                            created_by |-> creator_id]]

CanBeginNew == issued < MaxIssued /\ now < MaxTime

\* History: the operation on id completed, leaving permission set ps.
Commit(id, ps) == committed' = [committed EXCEPT ![id] = ps]

\* Mutant: the raw key is written to the name column.
NewInsertClient_StoresRaw(r) ==
    /\ rq[r].pc = "new_client"
    /\ LET c == rq[r].client
       IN  IF SelectClient(c.id) # {}
           THEN /\ SetRq(r, Finish(rq[r], FromError(MsgUniqueViolation)))
                /\ UNCHANGED <<api_clients, committed>>
           ELSE /\ api_clients' = api_clients \cup
                       {Row(c.id, c.key_raw, c.key_hash, rq[r].unix_now,
                            rq[r].unix_now, c.created_by)}
                /\ IF rq[r].permissions = {}
                   THEN /\ SetRq(r, Finish(rq[r], Resp(IF rq[r].kind = "cli" THEN CliExit ELSE OK,
                                                       MsgNone, Some(c))))
                        /\ Commit(c.id, Some({}))
                   ELSE /\ SetRq(r, [rq[r] EXCEPT !.pc = "new_scopes",
                                                  !.todo = rq[r].permissions])
                        /\ UNCHANGED committed
    /\ UNCHANGED <<scopes, now, issued, deleted>>

\* INSERT INTO api_clients: fails when a row with the id exists.
NewInsertClient(r) ==
    /\ rq[r].pc = "new_client"
    /\ LET c == rq[r].client
       IN  IF SelectClient(c.id) # {}
           THEN /\ SetRq(r, Finish(rq[r], FromError(MsgUniqueViolation)))
                /\ UNCHANGED <<api_clients, committed>>
           ELSE /\ api_clients' = api_clients \cup
                       {Row(c.id, c.name, c.key_hash, rq[r].unix_now,
                            rq[r].unix_now, c.created_by)}
                /\ IF rq[r].permissions = {}
                   THEN /\ SetRq(r, Finish(rq[r], Resp(IF rq[r].kind = "cli" THEN CliExit ELSE OK,
                                                       MsgNone, Some(c))))
                        /\ Commit(c.id, Some({}))
                   ELSE /\ SetRq(r, [rq[r] EXCEPT !.pc = "new_scopes",
                                                  !.todo = rq[r].permissions])
                        /\ UNCHANGED committed
    /\ UNCHANGED <<scopes, now, issued, deleted>>

\* Mutant: the loop of new goes round without writing the permission row.
NewInsertScope_NoWrite(r) ==
    /\ rq[r].pc = "new_scopes"
    /\ LET p == NextPerm(rq[r].todo)
       IN  /\ scopes' = scopes
           /\ IF rq[r].todo = {p}
              THEN /\ SetRq(r, Finish(rq[r], Resp(IF rq[r].kind = "cli" THEN CliExit ELSE OK,
                                                  MsgNone, Some(rq[r].client))))
                   /\ Commit(rq[r].client.id, Some(rq[r].permissions))
              ELSE /\ SetRq(r, [rq[r] EXCEPT !.todo = @ \ {p}])
                   /\ UNCHANGED committed
    /\ UNCHANGED <<api_clients, now, issued, deleted>>

\* One INSERT INTO api_client_permission_scopes of the loop in new; after
\* the last one the client is returned.
NewInsertScope(r) ==
    /\ rq[r].pc = "new_scopes"
    /\ LET p == NextPerm(rq[r].todo)
       IN  /\ scopes' = scopes \cup {<<rq[r].client.id, p>>}
           /\ IF rq[r].todo = {p}
              THEN /\ SetRq(r, Finish(rq[r], Resp(IF rq[r].kind = "cli" THEN CliExit ELSE OK,
                                                  MsgNone, Some(rq[r].client))))
                   /\ Commit(rq[r].client.id, Some(rq[r].permissions))
              ELSE /\ SetRq(r, [rq[r] EXCEPT !.todo = @ \ {p}])
                   /\ UNCHANGED committed
    /\ UNCHANGED <<api_clients, now, issued, deleted>>

\* ------------------------------------------------------- handle_create_request
\* Mutant: the client is created without requiring CREATE_SELF.
HandleCreate_NoCheck(r, name, permissions) ==
    /\ rq[r].pc = "handler"
    /\ CanBeginNew
    /\ \E id \in Ids :
          SetRq(r, BeginNew(Body(rq[r], "create", None, name, permissions),
                            id, Some(rq[r].client.id)))
    /\ now' = now + 1
    /\ issued' = issued + 1
    /\ UNCHANGED <<api_clients, scopes, hist>>

HandleCreate(r, name, permissions) ==
    /\ rq[r].pc = "handler"
    /\ LET req == Body(rq[r], "create", None, name, permissions)
       IN  IF ~has_permission(req.client, "CREATE_SELF")
           THEN /\ SetRq(r, Finish(req, PermissionError("CREATE_SELF")))
                /\ UNCHANGED <<now, issued>>
           ELSE /\ CanBeginNew
                /\ \E id \in Ids : SetRq(r, BeginNew(req, id, Some(req.client.id)))
                /\ now' = now + 1
                /\ issued' = issued + 1
    /\ UNCHANGED <<api_clients, scopes, hist>>

\* bin/cli: GenerateToken calls ApiClient::new directly on the database.
CliGenerateToken(r, name, permission, creator_id) ==
    /\ Free(r)
    /\ CanBeginNew
    /\ \E id \in Ids :
          SetRq(r, BeginNew([IdleRq EXCEPT !.kind = "cli", !.name = name,
                                           !.permissions = permission],
                            id, creator_id))
    /\ now' = now + 1
    /\ issued' = issued + 1
    /\ UNCHANGED <<api_clients, scopes, hist>>

\* ----------------------------------------------------------- ApiClient::delete
\* Mutant: the DELETE has no WHERE clause.
DeleteScopes_All(r) ==
    /\ rq[r].pc = "delete_scopes"
    /\ scopes' = {}
    /\ SetRq(r, [rq[r] EXCEPT !.pc = "delete_client"])
    /\ UNCHANGED <<api_clients, now, issued, hist>>

\* DELETE FROM api_client_permission_scopes where api_client_id = ?
DeleteScopes(r) ==
    /\ rq[r].pc = "delete_scopes"
    /\ scopes' = {s \in scopes : s[1] # rq[r].client.id}
    /\ SetRq(r, [rq[r] EXCEPT !.pc = "delete_client"])
    /\ UNCHANGED <<api_clients, now, issued, hist>>

\* Mutant: delete returns without removing the client row.
DeleteClient_KeepsRow(r) ==
    /\ rq[r].pc = "delete_client"
    /\ SetRq(r, Finish(rq[r], Resp(OK, MsgNone, None)))
    /\ deleted' = deleted \cup {<<row.id, row.key>> : row \in SelectClient(rq[r].client.id)}
    /\ Commit(rq[r].client.id, None)
    /\ UNCHANGED <<api_clients, scopes, now, issued>>

\* DELETE FROM api_clients WHERE id = ?
DeleteClient(r) ==
    /\ rq[r].pc = "delete_client"
    /\ api_clients' = {row \in api_clients : row.id # rq[r].client.id}
    /\ SetRq(r, Finish(rq[r], Resp(OK, MsgNone, None)))
    /\ deleted' = deleted \cup {<<row.id, row.key>> : row \in SelectClient(rq[r].client.id)}
    /\ Commit(rq[r].client.id, None)
    /\ UNCHANGED <<scopes, now, issued>>

\* ------------------------------------------------------- handle_delete_request
\* Mutant: the permission rows of the target are removed before the check.
HandleDelete_WritesFirst(r, id) ==
    /\ rq[r].pc = "handler"
    /\ scopes' = {s \in scopes : s[1] # id}
    /\ LET req == Body(rq[r], "delete", Some(id), <<>>, {})
       IN  IF ~has_permission(req.client, "DELETE_SELF")
           THEN SetRq(r, Finish(req, PermissionError("DELETE_SELF")))
           ELSE IF req.target[1] # req.client.id
                THEN SetRq(r, BeginWithId(req))
                ELSE SetRq(r, [req EXCEPT !.pc = "delete_scopes"])
    /\ UNCHANGED <<api_clients, now, issued, hist>>

HandleDelete(r, id) ==
    /\ rq[r].pc = "handler"
    /\ LET req == Body(rq[r], "delete", Some(id), <<>>, {})
       IN  IF ~has_permission(req.client, "DELETE_SELF")
           THEN SetRq(r, Finish(req, PermissionError("DELETE_SELF")))
           ELSE IF req.target[1] # req.client.id
                THEN SetRq(r, BeginWithId(req))
                ELSE SetRq(r, [req EXCEPT !.pc = "delete_scopes"])
    /\ UNCHANGED <<api_clients, scopes, now, issued, hist>>

\* handle_delete_request after with_id returned the target.
HandleDeleteLoaded(r) ==
    /\ rq[r].pc = "loaded"
    /\ rq[r].kind = "delete"
    /\ SetRq(r, [rq[r] EXCEPT !.pc = "delete_scopes"])
    /\ UNCHANGED <<api_clients, scopes, now, issued, hist>>

\* ----------------------------------------------------------- ApiClient::update
\* Mutant: update does not read the clock.
BeginUpdate_StaleClock(rec) ==
    [rec EXCEPT !.pc = "update_join", !.pending = {"update", "delete"}]

\* ApiClient::update up to its first await: the clock is read and the UPDATE
\* of the row and the DELETE of the permission rows are joined.
BeginUpdate(rec) ==
    [rec EXCEPT !.pc = "update_join", !.unix_now = now + 1,
                !.pending = {"update", "delete"}]

\* After both joined queries the insert loop starts, or update returns.
EndUpdateJoin(rec) ==
    IF rec.pending # {} THEN rec
    ELSE IF rec.permissions = {} THEN Finish(rec, Resp(OK, MsgNone, None))
    ELSE [rec EXCEPT !.pc = "update_scopes", !.todo = rec.permissions]

\* History kept by a step of update that takes the request from rec to next.
CommitUpdate(rec, next) ==
    IF next.pc = "done" /\ committed[rec.client.id] # None
    THEN Commit(rec.client.id, Some(rec.permissions))
    ELSE UNCHANGED committed

\* Mutant: the UPDATE also rewrites the id column.
UpdateClient_Rekeys(r) ==
    /\ rq[r].pc = "update_join"
    /\ "update" \in rq[r].pending
    /\ api_clients' = {IF row.id = rq[r].client.id
                       THEN [row EXCEPT !.id = rq[r].name,
                                        !.name = Some(rq[r].name),
                                        !.updated_at = rq[r].unix_now]
                       ELSE row : row \in api_clients}
    /\ SetRq(r, EndUpdateJoin([rq[r] EXCEPT !.pending = @ \ {"update"}]))
    /\ CommitUpdate(rq[r], rq'[r])
    /\ UNCHANGED <<scopes, now, issued, deleted>>

\* UPDATE api_clients SET name = ?, updated_at = ? WHERE id = ?
UpdateClient(r) ==
    /\ rq[r].pc = "update_join"
    /\ "update" \in rq[r].pending
    /\ api_clients' = {IF row.id = rq[r].client.id
                       THEN [row EXCEPT !.name = Some(rq[r].name),
                                        !.updated_at = rq[r].unix_now]
                       ELSE row : row \in api_clients}
    /\ SetRq(r, EndUpdateJoin([rq[r] EXCEPT !.pending = @ \ {"update"}]))
    /\ CommitUpdate(rq[r], rq'[r])
    /\ UNCHANGED <<scopes, now, issued, deleted>>

\* Mutant: update keeps the old permission rows (merge).
UpdateDeleteScopes_Keeps(r) ==
    /\ rq[r].pc = "update_join"
    /\ "delete" \in rq[r].pending
    /\ scopes' = scopes
    /\ SetRq(r, EndUpdateJoin([rq[r] EXCEPT !.pending = @ \ {"delete"}]))
    /\ CommitUpdate(rq[r], rq'[r])
    /\ UNCHANGED <<api_clients, now, issued, deleted>>

\* DELETE FROM api_client_permission_scopes WHERE api_client_id = ?
UpdateDeleteScopes(r) ==
    /\ rq[r].pc = "update_join"
    /\ "delete" \in rq[r].pending
    /\ scopes' = {s \in scopes : s[1] # rq[r].client.id}
    /\ SetRq(r, EndUpdateJoin([rq[r] EXCEPT !.pending = @ \ {"delete"}]))
    /\ CommitUpdate(rq[r], rq'[r])
    /\ UNCHANGED <<api_clients, now, issued, deleted>>

\* One INSERT INTO api_client_permission_scopes of the loop in update.
UpdateInsertScope(r) ==
    /\ rq[r].pc = "update_scopes"
    /\ LET p == NextPerm(rq[r].todo)
       IN  /\ scopes' = scopes \cup {<<rq[r].client.id, p>>}
           /\ IF rq[r].todo = {p}
              THEN SetRq(r, Finish(rq[r], Resp(OK, MsgNone, None)))
              ELSE SetRq(r, [rq[r] EXCEPT !.todo = @ \ {p}])
    /\ CommitUpdate(rq[r], rq'[r])
    /\ UNCHANGED <<api_clients, now, issued, deleted>>

\* ------------------------------------------------------- handle_update_request
\* Mutant: the handler checks the permission rows as they are stored now.
HandleUpdate_Rereads(r, id, name, permissions) ==
    /\ rq[r].pc = "handler"
    /\ LET req == Body(rq[r], "update", id, name, permissions)
           stored == [permissions |-> SelectScopes(req.client.id)]
       IN  IF req.target # None
           THEN IF req.target[1] # req.client.id
                THEN IF ~has_permission(stored, "UPDATE_OTHER")
                     THEN /\ SetRq(r, Finish(req, PermissionError("UPDATE_OTHER")))
                          /\ UNCHANGED now
                     ELSE /\ SetRq(r, BeginWithId(req))
                          /\ UNCHANGED now
                ELSE /\ now < MaxTime
                     /\ SetRq(r, BeginUpdate(req))
                     /\ now' = now + 1
           ELSE IF ~has_permission(stored, "UPDATE_SELF")
                THEN /\ SetRq(r, Finish(req, PermissionError("UPDATE_SELF")))
                     /\ UNCHANGED now
                ELSE /\ now < MaxTime
                     /\ SetRq(r, BeginUpdate(req))
                     /\ now' = now + 1
    /\ UNCHANGED <<api_clients, scopes, issued, hist>>

HandleUpdate(r, id, name, permissions) ==
    /\ rq[r].pc = "handler"
    /\ LET req == Body(rq[r], "update", id, name, permissions)
       IN  IF req.target # None
           THEN IF req.target[1] # req.client.id
                THEN IF ~has_permission(req.client, "UPDATE_OTHER")
                     THEN /\ SetRq(r, Finish(req, PermissionError("UPDATE_OTHER")))
                          /\ UNCHANGED now
                     ELSE /\ SetRq(r, BeginWithId(req))
                          /\ UNCHANGED now
                ELSE /\ now < MaxTime
                     /\ SetRq(r, BeginUpdate(req))
                     /\ now' = now + 1
           ELSE IF ~has_permission(req.client, "UPDATE_SELF")
                THEN /\ SetRq(r, Finish(req, PermissionError("UPDATE_SELF")))
                     /\ UNCHANGED now
                ELSE /\ now < MaxTime
                     /\ SetRq(r, BeginUpdate(req))
                     /\ now' = now + 1
    /\ UNCHANGED <<api_clients, scopes, issued, hist>>

\* handle_update_request after with_id returned the target.
HandleUpdateLoaded(r) ==
    /\ rq[r].pc = "loaded"
    /\ rq[r].kind = "update"
    /\ now < MaxTime
    /\ SetRq(r, BeginUpdate(rq[r]))
    /\ now' = now + 1
    /\ UNCHANGED <<api_clients, scopes, issued, hist>>

\* ------------------------------------------------------------ specification
Init ==
    /\ api_clients = {}
    /\ scopes = {}
    /\ now = 0
    /\ issued = 0
    /\ rq = [r \in Reqs |-> IdleRq]
    /\ deleted = {}
    /\ committed = [i \in Ids |-> None]

Step(r) ==
    \/ \E header \in Headers : Request(r, header)
    \/ \E name \in NewNames, permission \in PermChoices, creator_id \in CliCreators :
          CliGenerateToken(r, name, permission, creator_id)
    \/ WithTokenClient(r)
    \/ WithTokenScopes(r)
    \/ WithIdClient(r)
    \/ WithIdScopes(r)
    \/ \E id \in OptIds : HandleStatus(r, id)
    \/ HandleStatusLoaded(r)
    \/ \E name \in NewNames, permissions \in PermChoices :
          HandleCreate(r, name, permissions)
    \/ NewInsertClient(r)
    \/ NewInsertScope(r)
    \/ \E id \in Ids : HandleDelete(r, id)
    \/ HandleDeleteLoaded(r)
    \/ DeleteScopes(r)
    \/ DeleteClient(r)
    \/ \E id \in OptIds, name \in Names, permissions \in PermChoices :
          HandleUpdate(r, id, name, permissions)
    \/ HandleUpdateLoaded(r)
    \/ UpdateClient(r)
    \/ UpdateDeleteScopes(r)
    \/ UpdateInsertScope(r)

\* Requests are served one at a time by a single worker.
Next == Step("r1")

Spec == Init /\ [][Next]_vars

\* ------------------------------------------------- concurrent specification
\* Requests of one client acting on its own record, served concurrently by
\* the workers of the runtime.  The id the generator returns for it:
ConcIds == {<<"a">>}

ConcHeaders ==
    {Some(<<BearerPrefix>> \o FormatToken(id, Secret(n))) :
        id \in ConcIds, n \in 1..MaxIssued}

\* Bodies of the update requests: different names, disjoint permission sets.
ConcUpdates ==
    {[name |-> <<"m">>, permissions |-> {"STATUS_SELF", "STATUS_OTHER"}],
     [name |-> <<"n">>, permissions |-> {"DELETE_SELF", "DELETE_OTHER"}]}

\* bin/cli: GenerateToken makes the client with the default permissions of a
\* client that manages itself.
ConcGenerateToken(r) ==
    \E name \in NewNames :
        /\ CliGenerateToken(r, name, PSelf, None)
        /\ rq'[r].client.id \in ConcIds

StepConc(r) ==
    \/ \E header \in ConcHeaders : Request(r, header)
    \/ ConcGenerateToken(r)
    \/ WithTokenClient(r)
    \/ WithTokenScopes(r)
    \/ NewInsertClient(r)
    \/ NewInsertScope(r)
    \/ HandleDelete(r, rq[r].client.id)
    \/ DeleteScopes(r)
    \/ DeleteClient(r)
    \/ \E u \in ConcUpdates : HandleUpdate(r, None, u.name, u.permissions)
    \/ UpdateClient(r)
    \/ UpdateDeleteScopes(r)
    \/ UpdateInsertScope(r)

\* Each request runs as its own task; tasks interleave at their awaits.
NextConc == \E r \in Reqs : StepConc(r)

SpecConc == Init /\ [][NextConc]_vars

\* ------------------------------------------------------- gate specification
\* The gate under the runtime's scheduling: requests are checked while the
\* command line tool adds clients with or without USE_SELF, and a request
\* that was let through is answered by the status handler.
GateHeaders ==
    {None, Some(<<BearerPrefix, "b", "o", "g", "u", "s">>),
     Some(<<BearerPrefix>> \o FormatToken(<<"a">>, WrongSecret))}
    \cup {Some(<<BearerPrefix>> \o FormatToken(id, Secret(n))) :
            id \in Ids, n \in 1..MaxIssued}

GateGenerateToken(r) ==
    \E name \in NewNames, permission \in {PNone, PSelf} :
        CliGenerateToken(r, name, permission, None)

StepGate(r) ==
    \/ \E header \in GateHeaders : Request(r, header)
    \/ GateGenerateToken(r)
    \/ NewInsertClient(r)
    \/ NewInsertScope(r)
    \/ WithTokenClient(r)
    \/ WithTokenScopes(r)
    \/ HandleStatus(r, None)

NextGate == \E r \in Reqs : StepGate(r)

\* The runtime polls a task whose query has completed, and a query on the
\* pool completes: the two awaits of with_token do not block forever.
FairGate ==
    \A r \in Reqs : WF_vars(WithTokenClient(r)) /\ WF_vars(WithTokenScopes(r))

SpecGate == Init /\ [][NextGate]_vars /\ FairGate

\* ------------------------------------------- specification, damaged store
\* The service is started on a database file in which client a has a
\* permission row with a scope_id no Permission is written as, next to (or
\* instead of) its USE_SELF row; client b is intact and may look up others.
InitCorrupt ==
    /\ api_clients =
          {Row(<<"a">>, Some(<<"n">>), hash_password(Secret(1), 1), 0, 0, None),
           Row(<<"b">>, Some(<<"m">>), hash_password(Secret(2), 2), 0, 0, None)}
    /\ \E bad \in {{"USE_SELF", CorruptScope}, {CorruptScope}} :
          scopes = {<<(<<"a">>), p>> : p \in bad}
                   \cup {<<(<<"b">>), p>> :
                            p \in {"USE_SELF", "STATUS_SELF", "STATUS_OTHER"}}
    /\ now = 0
    /\ issued = 2
    /\ rq = [r \in Reqs |-> IdleRq]
    /\ deleted = {}
    /\ committed = [i \in Ids |-> None]

CorruptHeaders ==
    {Some(<<BearerPrefix>> \o FormatToken(<<"a">>, Secret(1))),
     Some(<<BearerPrefix>> \o FormatToken(<<"a">>, WrongSecret)),
     Some(<<BearerPrefix>> \o FormatToken(<<"b">>, Secret(2)))}

StepCorrupt(r) ==
    \/ \E header \in CorruptHeaders : Request(r, header)
    \/ WithTokenClient(r)
    \/ WithTokenScopes(r)
    \/ \E id \in OptIds : HandleStatus(r, id)
    \/ WithIdClient(r)
    \/ WithIdScopes(r)
    \/ HandleStatusLoaded(r)

NextCorrupt == \E r \in Reqs : StepCorrupt(r)

SpecCorrupt == InitCorrupt /\ [][NextCorrupt]_vars

\* ------------------------------------------------------- claim vocabulary
\* The handler of request r has been entered.
HandlerRan(r) == rq[r].pc = "handler" \/ rq[r].kind \in Kinds

Done(r) == rq[r].pc = "done"

HasSep(token) == \E i \in DOMAIN token : token[i] = Sep

\* The bearer token of request r, when its header carries one.
BearerOf(r) ==
    IF rq[r].header # None /\ Len(rq[r].header[1]) > 0
       /\ Head(rq[r].header[1]) = BearerPrefix
    THEN Some(Tail(rq[r].header[1]))
    ELSE None

\* Error kinds as they are seen on the wire.
IsAuthenticationFailed(resp) ==
    resp.status = UNAUTHORIZED /\ resp.message = MsgAuthFailed
IsForbidden(resp) ==
    Len(resp.message) = 2 /\ resp.message[1] = MsgNoPermission
IsMalformedToken(resp) == resp.message = MsgInvalidFormat

\* C1: the handler of a request runs only if the bearer token parsed into
\* (id, secret), the attached client has that id, the secret verifies against
\* its stored hash and it holds Use-Self; and when the handler is entered the
\* attached client is exactly the stored record with the token's id.
C1_GateSafety ==
    \A r \in Reqs :
        HandlerRan(r) =>
            /\ BearerOf(r) # None
            /\ HasSep(BearerOf(r)[1])
            /\ rq[r].token.id \o <<Sep>> \o rq[r].token.key
                   = SubSeq(BearerOf(r)[1], 1,
                            Len(rq[r].token.id) + 1 + Len(rq[r].token.key))
            /\ rq[r].caller.id = rq[r].token.id
            /\ rq[r].caller.key_hash
                   = hash_password(rq[r].token.key, rq[r].caller.key_hash.salt)
            /\ "USE_SELF" \in rq[r].caller.permissions
            /\ rq[r].pc = "handler" =>
                  \E row \in api_clients :
                      /\ row.id = rq[r].token.id
                      /\ rq[r].caller = ApiClient(row, SelectScopes(row.id))

\* A request with a valid token of a client holding Use-Self is at its handler.
C1_Witness ==
    \E r \in Reqs :
        /\ rq[r].pc = "handler"
        /\ rq[r].caller.id = <<"a">>
        /\ rq[r].caller.permissions = PSelf

\* C2: a delete request removes a record other than the caller's only if the
\* caller holds Delete-Other, and the caller's own record only if the caller
\* holds Delete-Self.
C2_DeleteAuthorization ==
    \A r \in Reqs :
        (rq[r].kind = "delete" /\ Done(r) /\ rq[r].resp.status = OK) =>
            IF rq[r].target[1] # rq[r].caller.id
            THEN "DELETE_OTHER" \in rq[r].caller.permissions
            ELSE "DELETE_SELF" \in rq[r].caller.permissions

\* C3: an update request that changes a record requires Update-Other of the
\* caller when the target is another client and Update-Self when it is the
\* caller's own record, named by omitting the id or by passing it.
C3_UpdateAuthorization ==
    \A r \in Reqs :
        (rq[r].kind = "update" /\ Done(r) /\ rq[r].resp.status = OK) =>
            IF rq[r].target # None /\ rq[r].target[1] # rq[r].caller.id
            THEN "UPDATE_OTHER" \in rq[r].caller.permissions
            ELSE "UPDATE_SELF" \in rq[r].caller.permissions

StoredIds(table) == {row.id : row \in table}

\* C5: a step of a create request adds a client row only if the caller holds
\* Create-Self; a create request of a caller without it ends with Forbidden
\* and leaves both tables as they were.
C5_CreateAuthorization ==
    [][\A r \in Reqs :
          (rq'[r] # rq[r] /\ rq'[r].kind = "create") =>
              /\ StoredIds(api_clients') # StoredIds(api_clients)
                 => "CREATE_SELF" \in rq'[r].caller.permissions
              /\ "CREATE_SELF" \notin rq'[r].caller.permissions
                 => /\ rq'[r].pc = "done"
                    /\ IsForbidden(rq'[r].resp)
                    /\ api_clients' = api_clients
                    /\ scopes' = scopes]_vars

\* A create request of a caller holding Create-Self has added its client.
C5_Witness ==
    \E r \in Reqs :
        /\ rq[r].kind = "create"
        /\ Done(r)
        /\ rq[r].resp.status = OK
        /\ "CREATE_SELF" \in rq[r].caller.permissions
        /\ \E row \in api_clients :
              /\ row.id = rq[r].resp.body[1].id
              /\ row.key = rq[r].resp.body[1].key_hash

\* C6: a client row added by a step of a create request has created_by equal
\* to the id of the request's authenticated caller, which is the id of its
\* token; and no step changes the created_by of a row that stays in the
\* table, whatever happens to the row of its creator.
C6_CreatedBy ==
    [][/\ \A r \in Reqs :
             (rq'[r] # rq[r] /\ rq'[r].kind = "create") =>
                 \A row \in api_clients' \ api_clients :
                     /\ row.created_by = Some(rq'[r].caller.id)
                     /\ row.created_by = Some(rq'[r].token.id)
       /\ \A old \in api_clients : \A new \in api_clients' :
             new.id = old.id => new.created_by = old.created_by]_vars

\* Scenario A: the client made by a create request of caller a is stored with
\* created_by = a.
C6_Witness ==
    \E r \in Reqs :
        /\ rq[r].kind = "create"
        /\ Done(r)
        /\ rq[r].resp.status = OK
        /\ rq[r].caller.id = <<"a">>
        /\ \E row \in api_clients :
              /\ row.id = <<"b">>
              /\ row.key = rq[r].resp.body[1].key_hash
              /\ row.created_by = Some(<<"a">>)

\* The token presents the id and the secret of a client that a completed
\* delete has removed.
TokenOfDeleted(token) ==
    \E d \in deleted :
        d[1] = token.id /\ d[2] = hash_password(token.key, d[2].salt)

\* C7: the gate decides against the store as it is when the request runs:
\* a request presenting the token of a client that a completed delete has
\* removed ends with AuthenticationFailed; and a self-delete request of a
\* client whose last completed write left it without Delete-Self ends with
\* Forbidden, the client's row still being in the table.
C7_NoStaleCredential ==
    [][\A r \in Reqs :
          /\ (rq[r].pc = "with_token" /\ rq'[r] # rq[r] /\ TokenOfDeleted(rq[r].token))
             => (rq'[r].pc = "done" /\ IsAuthenticationFailed(rq'[r].resp))
          /\ (/\ rq[r].pc = "handler"
              /\ rq'[r] # rq[r]
              /\ rq'[r].kind = "delete"
              /\ rq'[r].target = Some(rq[r].caller.id)
              /\ committed[rq[r].caller.id] # None
              /\ "DELETE_SELF" \notin committed[rq[r].caller.id][1])
             => /\ rq'[r].pc = "done"
                /\ IsForbidden(rq'[r].resp)
                /\ api_clients' = api_clients
                /\ \E row \in api_clients' : row.id = rq[r].caller.id]_vars

\* Scenario C: client a was updated, the update left it without Delete-Self,
\* and its self-delete request has been refused.
C7_Witness ==
    \E r \in Reqs :
        /\ rq[r].kind = "delete"
        /\ rq[r].caller.id = <<"a">>
        /\ rq[r].target = Some(<<"a">>)
        /\ rq[r].caller.updated_at > rq[r].caller.created_at
        /\ committed[<<"a">>] = Some(PMgr)
        /\ Done(r)
        /\ IsForbidden(rq[r].resp)
        /\ SelectClient(<<"a">>) # {}

\* C8: a well-formed token whose id has no row and one whose id has a row
\* with a different secret get the very same response from the gate: 401
\* with the message "Failed to authenticate client" and no body.
C8_UndifferentiatedFailure ==
    [][\A r \in Reqs :
          (/\ rq[r].pc = "with_token"
           /\ rq'[r] # rq[r]
           /\ \A row \in api_clients :
                 row.id = rq[r].token.id
                 => row.key # hash_password(rq[r].token.key, row.key.salt))
          => /\ rq'[r].pc = "done"
             /\ rq'[r].resp = [status |-> UNAUTHORIZED, message |-> MsgAuthFailed,
                               body |-> None]]_vars

\* A request with the id of a stored client and a wrong secret was rejected.
C8_Witness ==
    \E r \in Reqs :
        /\ Done(r)
        /\ rq[r].kind = "none"
        /\ IsAuthenticationFailed(rq[r].resp)
        /\ \E row \in api_clients :
              /\ row.id = rq[r].token.id
              /\ row.key # hash_password(rq[r].token.key, row.key.salt)

\* C9: a request rejected for lack of a permission gets a 4xx response other
\* than 401, not a server fault.
C9_ForbiddenIsDistinct ==
    \A r \in Reqs :
        (Done(r) /\ IsForbidden(rq[r].resp)) =>
            /\ rq[r].resp.status >= 400
            /\ rq[r].resp.status < 500
            /\ rq[r].resp.status # UNAUTHORIZED

\* C10: a request whose bearer token has no separator ends at the parse step
\* with MalformedToken: it never queries the store and never gets
\* AuthenticationFailed.
C10_NoSeparator ==
    \A r \in Reqs :
        (BearerOf(r) # None /\ ~HasSep(BearerOf(r)[1])) =>
            /\ Done(r)
            /\ IsMalformedToken(rq[r].resp)
            /\ ~IsAuthenticationFailed(rq[r].resp)
            /\ rq[r].found = NoRow
            /\ rq[r].caller = NoClient
            /\ rq[r].kind = "none"

\* Scenario D: the request with header "Bearer bogus" was rejected.
C10_Witness ==
    \E r \in Reqs :
        /\ rq[r].header = Some(<<BearerPrefix, "b", "o", "g", "u", "s">>)
        /\ Done(r)
        /\ IsMalformedToken(rq[r].resp)

\* The two parts of a token around its first separator.
IdPart(token) == SubSeq(token, 1, FindSep(token, 1) - 1)
SecretPart(token) == SubSeq(token, FindSep(token, 1) + 1, Len(token))

\* C11: a token with one or more separators is parsed into id = the text
\* before the first separator and secret = all the text after it, further
\* separators included.
C11_SplitOnFirstSeparator ==
    \A r \in Reqs :
        (BearerOf(r) # None /\ HasSep(BearerOf(r)[1])) =>
            rq[r].token = [id |-> IdPart(BearerOf(r)[1]),
                           key |-> SecretPart(BearerOf(r)[1])]

\* The id part or the secret part of the token is empty.
EmptySegment(token) ==
    HasSep(token) /\ (IdPart(token) = <<>> \/ SecretPart(token) = <<>>)

\* C12: a request whose token has an empty id part or an empty secret part
\* ends at the parse step with MalformedToken; the store is not queried and
\* nothing is verified.
C12_EmptySegmentRejected ==
    \A r \in Reqs :
        (BearerOf(r) # None /\ EmptySegment(BearerOf(r)[1])) =>
            /\ Done(r)
            /\ IsMalformedToken(rq[r].resp)
            /\ rq[r].found = NoRow
            /\ rq[r].caller = NoClient

\* C13: once new has returned a client, parsing the token it returned
\* (id and raw key joined by the separator), fetching the row of its id,
\* verifying the key against the stored hash and loading the permission rows
\* yields a client with the same id, name and permission set.
C13_RoundTrip ==
    \A r \in Reqs :
        (Done(r) /\ rq[r].kind \in {"create", "cli"} /\ rq[r].resp.body # None) =>
            LET c == rq[r].resp.body[1]
                t == extract_id_key(FormatToken(c.id, c.key_raw[1]))
            IN  /\ t.ok
                /\ t.id = c.id
                /\ \E row \in SelectClient(t.id) :
                      /\ verify_password(t.key, row.key)
                      /\ ApiClient(row, SelectScopes(t.id)).id = c.id
                      /\ ApiClient(row, SelectScopes(t.id)).name = c.name
                      /\ ApiClient(row, SelectScopes(t.id)).permissions
                             = c.permissions

\* A create request has returned a client made with name n and four
\* permissions.
C13_Witness ==
    \E r \in Reqs :
        /\ Done(r)
        /\ rq[r].kind = "create"
        /\ rq[r].resp.body # None
        /\ rq[r].resp.body[1].name = Some(<<"n">>)
        /\ rq[r].resp.body[1].permissions = PSelf
        /\ SelectScopes(rq[r].resp.body[1].id) = PSelf

\* The secret that was generated for the client of a row.
GeneratedSecret(row) == row.key.digest[2]

\* C14: the check of a token against the stored row of its id succeeds if and
\* only if the secret the token presents, the text after its first separator,
\* is the secret generated when the row's client was made.
C14_ExactSecret ==
    [][\A r \in Reqs :
          (/\ rq[r].pc = "with_token"
           /\ rq'[r] # rq[r]
           /\ SelectClient(rq[r].token.id) # {})
          => \A row \in SelectClient(rq[r].token.id) :
                (rq'[r].pc = "with_token_scopes")
                    <=> (SecretPart(BearerOf(r)[1]) = GeneratedSecret(row))]_vars

\* C15: a delete request for an id that a completed delete has removed, sent
\* by a caller holding Delete-Self and Delete-Other, does not end with an
\* error, and after a delete request the store has neither a client row nor
\* a permission row of the id.
C15_DeleteIdempotent ==
    \A r \in Reqs :
        (/\ Done(r)
         /\ rq[r].kind = "delete"
         /\ {"DELETE_SELF", "DELETE_OTHER"} \subseteq rq[r].caller.permissions
         /\ \E d \in deleted : d[1] = rq[r].target[1])
        => /\ rq[r].resp.status = OK
           /\ SelectClient(rq[r].target[1]) = {}
           /\ SelectScopes(rq[r].target[1]) = {}

\* C16: in every state a client row that new has inserted is in the store
\* together with the complete permission set given to new.
C16_CreateAtomic ==
    \A r \in Reqs :
        rq[r].pc \in {"new_client", "new_scopes"} =>
            \A row \in SelectClient(rq[r].client.id) :
                row.key = rq[r].client.key_hash
                    => SelectScopes(row.id) = rq[r].permissions

\* C17 (scenario E): when two update requests on the same client have both
\* completed, the client's name and permission set are those of one of the
\* submitted bodies, both from the same body.
C17_ConcurrentUpdates ==
    (/\ \A r \in Reqs :
           Done(r) /\ rq[r].kind = "update" /\ rq[r].resp.status = OK
     /\ rq["r1"].caller.id = rq["r2"].caller.id)
    => \A row \in SelectClient(rq["r1"].caller.id) :
          [name |-> row.name[1], permissions |-> SelectScopes(row.id)]
              \in ConcUpdates

\* C18: when an update request and a delete request on the same client have
\* both completed, the store is as after running them one after the other:
\* the client row is gone and no permission row of the id remains.
C18_UpdateDeleteSerial ==
    \A r, q \in Reqs :
        (/\ Done(r) /\ rq[r].kind = "update" /\ rq[r].resp.status = OK
         /\ Done(q) /\ rq[q].kind = "delete" /\ rq[q].resp.status = OK
         /\ rq[r].caller.id = rq[q].caller.id)
        => /\ SelectClient(rq[r].caller.id) = {}
           /\ SelectScopes(rq[r].caller.id) = {}

\* C19: no state has the client row of a delete still in the store while the
\* permission rows of the client have already been removed by that delete.
C19_DeleteAtomic ==
    \A r \in Reqs :
        (rq[r].pc = "delete_client" /\ rq[r].client.permissions # {}) =>
            ~(/\ SelectClient(rq[r].client.id) # {}
              /\ SelectScopes(rq[r].client.id) = {})

\* C20: the step that completes an update request, no other writer being
\* active, leaves the client's row with the given name and the permission
\* rows of the client equal to exactly the given set.
C20_UpdateReplaces ==
    [][\A r \in Reqs :
          (/\ rq[r].kind = "update"
           /\ rq[r].pc \in {"update_join", "update_scopes"}
           /\ rq'[r].pc = "done")
          => /\ \E row \in api_clients' :
                   row.id = rq[r].client.id /\ row.name = Some(rq[r].name)
             /\ {s[2] : s \in {t \in scopes' : t[1] = rq[r].client.id}}
                    = rq[r].permissions]_vars

\* A client that held the self permissions has updated itself to name m and
\* the manager set: nothing of the old set that is not in the new one is left.
C20_Witness ==
    \E r \in Reqs :
        /\ Done(r)
        /\ rq[r].kind = "update"
        /\ rq[r].resp.status = OK
        /\ rq[r].caller.permissions = PSelf
        /\ rq[r].target = None
        /\ SelectScopes(rq[r].caller.id) = PMgr
        /\ \E row \in SelectClient(rq[r].caller.id) : row.name = Some(<<"m">>)

\* C21: a row enters the table with created_at = updated_at; the UPDATE of an
\* update request sets the target's updated_at to the time read by the update
\* and its name to the given one; no step of an update request changes the
\* id, key hash, created_at or created_by of a row, or any field of another
\* row; and a request presenting the key generated for a stored row passes
\* the verification whatever updates the row has had.
C21_UpdateFrame ==
    [][/\ \A new \in api_clients' :
             (\A old \in api_clients : old.id # new.id)
                 => new.created_at = new.updated_at
       /\ \A r \in Reqs :
             (rq'[r] # rq[r] /\ rq[r].kind = "update") =>
                 /\ \A old \in api_clients : \E new \in api_clients' :
                       /\ new.id = old.id
                       /\ new.key = old.key
                       /\ new.created_at = old.created_at
                       /\ new.created_by = old.created_by
                       /\ old.id # rq[r].client.id => new = old
                 /\ \A new \in api_clients' : \E old \in api_clients :
                       old.id = new.id
                 /\ (rq[r].pc = "update_join" /\ "update" \in rq[r].pending
                     /\ "update" \notin rq'[r].pending)
                    => \A new \in api_clients' :
                          new.id = rq[r].client.id
                              => /\ new.updated_at = now
                                 /\ new.name = Some(rq[r].name)
       /\ \A r \in Reqs :
             (rq[r].pc = "with_token" /\ rq'[r] # rq[r]) =>
                 \A row \in SelectClient(rq[r].token.id) :
                     rq[r].token.key = GeneratedSecret(row)
                         => /\ rq'[r].pc = "with_token_scopes"
                            /\ rq'[r].found.created_at = row.created_at]_vars

\* A client has been updated and a later request with the token issued at
\* its creation is at its handler.
C21_Witness ==
    \E r \in Reqs :
        /\ rq[r].pc = "handler"
        /\ rq[r].caller.updated_at > rq[r].caller.created_at
        /\ rq[r].caller.name = Some(<<"m">>)
        /\ rq[r].token.key = GeneratedSecret(rq[r].found)

\* The raw secrets generated so far.
RawSecrets == {Secret(n) : n \in 1..issued}

\* C22: in every state each client row holds in its key column the hash of
\* the secret generated for it, and no column of a client row or of a
\* permission row holds a raw secret.
C22_NoRawSecretStored ==
    /\ \A row \in api_clients :
          /\ row.key.alg = "argon2id"
          /\ \E n \in 1..issued : row.key = hash_password(Secret(n), n)
          /\ row.id \notin RawSecrets
          /\ row.name # None => row.name[1] \notin RawSecrets
          /\ row.created_by # None => row.created_by[1] \notin RawSecrets
    /\ \A s \in scopes : s[1] \notin RawSecrets /\ s[2] \in Perms

\* A create request has returned the raw secret of a client whose row is
\* stored.
C22_Witness ==
    \E r \in Reqs :
        /\ Done(r)
        /\ rq[r].kind = "create"
        /\ rq[r].resp.body # None
        /\ rq[r].resp.body[1].key_raw \in {Some(k) : k \in RawSecrets}
        /\ \E row \in api_clients :
              row.key = hash_password(rq[r].resp.body[1].key_raw[1], row.key.salt)

\* C24: no response carries the text of a storage error.
C24_GenericMessages ==
    \A r \in Reqs :
        Done(r) => rq[r].resp.message \notin {MsgRowNotFound, MsgUniqueViolation}

\* C26: a request without Authorization header ends with MissingHeader, one
\* whose header does not start with the Bearer prefix with MalformedHeader,
\* in both cases with no token parsed and no row read; otherwise the token
\* that is parsed is the header value without the prefix.
C26_HeaderExtraction ==
    \A r \in Reqs :
        (rq[r].pc # "idle" /\ rq[r].kind # "cli") =>
            /\ rq[r].header = None
               => /\ Done(r)
                  /\ rq[r].resp.message = MsgMissingHeader
                  /\ rq[r].token = IdleRq.token
                  /\ rq[r].found = NoRow
                  /\ rq[r].caller = NoClient
            /\ (rq[r].header # None /\ BearerOf(r) = None)
               => /\ Done(r)
                  /\ rq[r].resp.message = MsgInvalidHeader
                  /\ rq[r].token = IdleRq.token
                  /\ rq[r].found = NoRow
                  /\ rq[r].caller = NoClient
            /\ BearerOf(r) # None
               => /\ rq[r].resp.message \notin {MsgMissingHeader, MsgInvalidHeader}
                  /\ LET t == extract_id_key(Tail(rq[r].header[1]))
                     IN  IF t.ok
                         THEN rq[r].token = [id |-> t.id, key |-> t.key]
                         ELSE Done(r) /\ IsMalformedToken(rq[r].resp)

\* A request with a header of another scheme was rejected.
C26_Witness ==
    \E r \in Reqs :
        /\ Done(r)
        /\ rq[r].header # None
        /\ Head(rq[r].header[1]) = "Basic "
        /\ rq[r].resp.message = MsgInvalidHeader

PrePcs == {"idle", "done", "with_token", "with_token_scopes", "handler",
           "with_id", "loaded"}
WritePcs == {"new_client", "new_scopes", "delete_scopes", "delete_client",
             "update_join", "update_scopes"}

\* The response of a request rejected by the gate, by a permission check or
\* by the lookup of its target.
IsRejected(resp) ==
    \/ IsForbidden(resp)
    \/ IsAuthenticationFailed(resp)
    \/ resp.message \in {MsgMissingHeader, MsgInvalidHeader, MsgInvalidFormat,
                         MsgStatusNotFound, MsgUpdateNotFound, MsgRowNotFound}

\* C28: a request writes to the store only once it is inside its store
\* operation; a rejection is only ever issued before that point, and a
\* request inside its store operation never goes back before it: a rejected
\* request has left the client rows and permission rows as they were.
C28_RejectedNoEffect ==
    [][\A r \in Reqs :
          rq'[r] # rq[r] =>
              /\ rq[r].pc \in PrePcs
                 => (api_clients' = api_clients /\ scopes' = scopes)
              /\ (rq'[r].pc = "done" /\ IsRejected(rq'[r].resp))
                 => rq[r].pc \in PrePcs
              /\ rq[r].pc \in WritePcs
                 => rq'[r].pc \in WritePcs \cup {"done"}]_vars

\* An update request aimed at the stored client b was refused.
C28_Witness ==
    \E r \in Reqs :
        /\ Done(r)
        /\ rq[r].kind = "update"
        /\ rq[r].target = Some(<<"b">>)
        /\ IsForbidden(rq[r].resp)
        /\ SelectClient(<<"b">>) # {}
        /\ SelectScopes(<<"b">>) # {}

\* C29: a step of a store operation changes client rows and permission rows
\* of the operation's id only, which for update and delete is the target of
\* the request; every other row, in either table, is as before.
C29_ConfinedToTarget ==
    [][\A r \in Reqs :
          rq'[r] # rq[r] =>
              /\ rq[r].pc \in (WritePcs \ {"new_client", "new_scopes"})
                 => rq[r].client.id = IF rq[r].target = None
                                      THEN rq[r].caller.id
                                      ELSE rq[r].target[1]
              /\ \A row \in api_clients \cup api_clients' :
                    (rq[r].pc \notin WritePcs \/ row.id # rq[r].client.id)
                        => row \in api_clients \cap api_clients'
              /\ \A s \in scopes \cup scopes' :
                    (rq[r].pc \notin WritePcs \/ s[1] # rq[r].client.id)
                        => s \in scopes \cap scopes']_vars

\* Client b, made by a, is stored with its permissions and created_by = a
\* after a has been deleted.
C29_Witness ==
    /\ SelectClient(<<"a">>) = {}
    /\ \E d \in deleted : d[1] = <<"a">>
    /\ \E row \in SelectClient(<<"b">>) : row.created_by = Some(<<"a">>)
    /\ committed[<<"b">>] = Some(SelectScopes(<<"b">>))
    /\ SelectScopes(<<"b">>) # {}

\* C30: the handler decides on the client the gate attached: a self-delete
\* is refused exactly when the attached copy lacks Delete-Self and a
\* self-update exactly when it lacks Update-Self, whatever the store holds
\* for the caller by then, and the attached copy is not replaced.
C30_PermissionSnapshot ==
    [][\A r \in Reqs :
          (rq[r].pc = "handler" /\ rq'[r] # rq[r]) =>
              /\ rq'[r].caller = rq[r].caller
              /\ rq'[r].kind = "delete"
                 => (IsForbidden(rq'[r].resp)
                        <=> "DELETE_SELF" \notin rq[r].caller.permissions)
              /\ (rq'[r].kind = "update" /\ rq'[r].target = None)
                 => (IsForbidden(rq'[r].resp)
                        <=> "UPDATE_SELF" \notin rq[r].caller.permissions)
              /\ IsForbidden(rq'[r].resp) \/ rq'[r].pc \in WritePcs]_vars

\* A self-update was let through on the attached permissions after another
\* request's update of the caller, completed in between, had removed
\* Update-Self from the store.
C30_Witness ==
    \E r \in Reqs :
        /\ rq[r].kind = "update"
        /\ rq[r].pc = "update_join"
        /\ rq[r].pending = {"update", "delete"}
        /\ "UPDATE_SELF" \in rq[r].caller.permissions
        /\ SelectClient(rq[r].caller.id) # {}
        /\ committed[rq[r].caller.id] # None
        /\ "UPDATE_SELF" \notin committed[rq[r].caller.id][1]
        /\ "UPDATE_SELF" \notin SelectScopes(rq[r].caller.id)

\* Positions of a request inside the gate, and where the gate leaves it.
GatePcs == {"with_token", "with_token_scopes"}
GateEnds == {"handler", "done"}

\* The gate ended the request: no client attached, no handler entered.
GateFailed(rec) ==
    rec.pc = "done" /\ rec.kind = "none" /\ rec.caller = NoClient

\* C25: a request goes through the gate's steps in order and once each:
\* extraction and parsing fail before anything is looked up, extraction
\* first; the lookup of an unknown id ends the request without a key ever
\* being compared with a stored hash; a failing step ends the request in one
\* failure state with no client attached; permissions are loaded only after
\* the lookup and a client attached only after the permissions; and every
\* request that entered the gate reaches the handler or a failure.
C25_GateOrder ==
    /\ [][\A r \in Reqs :
            rq'[r] # rq[r] =>
              /\ rq'[r].pc = "with_token"
                 => /\ Free(r)
                    /\ extract_auth_header(rq'[r].header).ok
                    /\ extract_id_key(extract_auth_header(rq'[r].header).token).ok
              /\ (Free(r) /\ GateFailed(rq'[r]))
                 => \/ /\ ~extract_auth_header(rq'[r].header).ok
                       /\ rq'[r].resp.status = BAD_REQUEST
                    \/ /\ extract_auth_header(rq'[r].header).ok
                       /\ IsMalformedToken(rq'[r].resp)
              /\ rq'[r].pc = "with_token_scopes"
                 => /\ rq[r].pc = "with_token"
                    /\ rq'[r].found \in SelectClient(rq[r].token.id)
                    /\ verify_password(rq[r].token.key, rq'[r].found.key)
              /\ rq[r].pc = "with_token"
                 => \/ rq'[r].pc = "with_token_scopes"
                    \/ /\ GateFailed(rq'[r])
                       /\ IsAuthenticationFailed(rq'[r].resp)
                       /\ rq'[r].found = NoRow
              /\ (rq[r].pc = "with_token" /\ SelectClient(rq[r].token.id) = {})
                 => GateFailed(rq'[r])
              /\ rq'[r].pc = "handler"
                 => /\ rq[r].pc = "with_token_scopes"
                    /\ rq'[r].caller = ApiClient(rq[r].found,
                                                 SelectScopes(rq[r].token.id))
                    /\ has_permission(rq'[r].caller, "USE_SELF")
              /\ rq[r].pc = "with_token_scopes"
                 => \/ rq'[r].pc = "handler"
                    \/ GateFailed(rq'[r]) /\ IsForbidden(rq'[r].resp)
              /\ rq[r].pc \in GatePcs
                 => rq'[r].token = rq[r].token /\ rq'[r].header = rq[r].header]_vars
    /\ \A r \in Reqs : (rq[r].pc \in GatePcs) ~> (rq[r].pc \in GateEnds)

\* While one request stands attached to its client at the handler, another
\* with a well-formed token for an id that is not stored has ended at the
\* lookup, and a client is stored.
C25_Witness ==
    \E r1 \in Reqs, r2 \in Reqs :
        /\ rq[r1].pc = "handler"
        /\ rq[r1].caller.id = rq[r1].token.id
        /\ GateFailed(rq[r2])
        /\ IsAuthenticationFailed(rq[r2].resp)
        /\ rq[r2].token.id # <<>>
        /\ rq[r2].token.id \notin StoredIds(api_clients)
        /\ rq[r2].found = NoRow

\* Request r has ended after loading, at the gate or by id, the permission
\* rows of a client that include a value outside the vocabulary.
LoadedCorrupt(r) ==
    /\ Done(r)
    /\ rq[r].found # NoRow
    /\ \/ /\ rq[r].kind = "none"
          /\ rq[r].found.id = rq[r].token.id
          /\ ~(SelectScopes(rq[r].token.id) \subseteq Perms)
       \/ /\ rq[r].kind = "status"
          /\ rq[r].target # None
          /\ rq[r].found.id = rq[r].target[1]
          /\ ~(SelectScopes(rq[r].target[1]) \subseteq Perms)

\* C23: a request that loaded a client with a stored permission value
\* outside the vocabulary ends with a server-fault error response, returns no
\* client, and when the load was the gate's no client was attached.
C23_CorruptFailsClosed ==
    \A r \in Reqs :
        LoadedCorrupt(r) =>
            /\ rq[r].resp.status >= 500
            /\ rq[r].resp.body = None
            /\ rq[r].kind = "none" => rq[r].caller = NoClient

====
